---- MODULE Spec2Model ----
(***************************************************************************)
(* A model of the pixel compositing buffer (ImageBuffer.cpp) and of the    *)
(* isometric coordinate transform (BlockmapIsometric.cpp).                 *)
(*                                                                         *)
(* The rasters are the flat vectors of the code, kept as sequences: the    *)
(* element at 0-based offset k of a std::vector is element k + 1 here.     *)
(* Iterators are 0-based offsets into their vector.                        *)
(***************************************************************************)
EXTENDS Integers, Sequences, FiniteSets, TLC

VARIABLES
    m_width,      \* ImageBuffer::m_width
    m_height,     \* ImageBuffer::m_height
    m_pixels,     \* ImageBuffer::m_pixels, one byte per pixel
    m_priority,   \* ImageBuffer::m_priority, one byte per pixel
    m_rgb,        \* ImageBuffer::m_rgb, the scratch vector GetRGB fills
    m_alpha,      \* ImageBuffer::m_alpha, the scratch vector GetAlpha fills
    lastCall,     \* the call that produced this state, with its arguments
    calls,        \* the insertion calls made since the rasters were last zeroed
    heldRGB,      \* what a caller read from a GetRGB result when it obtained it
    heldAlpha,    \* what a caller read from a GetAlpha result when it obtained it
    nops,         \* number of calls made on the buffer
    m_mapWidth,   \* BlockmapIsometric: GetWidth()
    m_mapHeight,  \* BlockmapIsometric: GetHeight()
    m_left,       \* BlockmapIsometric: GetLeft()
    m_top,        \* BlockmapIsometric: GetTop()
    TILEWIDTH,    \* BlockmapIsometric: TILEWIDTH
    TILEHEIGHT,   \* BlockmapIsometric: TILEHEIGHT
    isoCall       \* the transform call that produced this state, with its result

bufVars == <<m_width, m_height, m_pixels, m_priority, m_rgb, m_alpha,
             lastCall, calls, heldRGB, heldAlpha, nops>>

isoVars == <<m_mapWidth, m_mapHeight, m_left, m_top, TILEWIDTH, TILEHEIGHT, isoCall>>

vars == <<bufVars, isoVars>>

(***************************************************************************)
(* Bounds of the model.                                                    *)
(***************************************************************************)
\* Calls made on one buffer after its construction.
MaxOps == 2

\* The largest width and height, in tiles, of a map.
MaxGrid == 3

\* How far outside the map's canvas a screen point may lie, in pixels.
Margin == 3

(***************************************************************************)
(* Byte arithmetic.                                                        *)
(***************************************************************************)
RECURSIVE BitOr(_, _)
\* a | b on non-negative integers.
BitOr(a, b) ==
    IF a = 0 THEN b
    ELSE IF b = 0 THEN a
    ELSE (IF a % 2 = 1 \/ b % 2 = 1 THEN 1 ELSE 0) + 2 * BitOr(a \div 2, b \div 2)

\* const uint8_t pal_bits = palette_index << 4: the shift is done in int and
\* the result narrowed to a byte.
PalBits(palette_index) == (palette_index * 16) % 256

\* std::min on bytes.
Min(a, b) == IF a <= b THEN a ELSE b

\* size elements, all zero: vector::assign(size, 0).
Zeroes(size) == [k \in 1..size |-> 0]

(***************************************************************************)
(* Collaborators: tiles, the tileset and the palettes.                     *)
(***************************************************************************)
\* A Tile: the index the tileset looks up and its priority attribute.
MkTile(index, priority) == [index |-> index, priority |-> priority]

\* Tileset::getTile: the 64 bytes of a tile, row-major, 8 per row, each 0..15.
getTile(tile) ==
    [n \in 1..64 |->
        LET i == n - 1 IN
        CASE tile.index = 0 -> 0
          [] tile.index = 1 -> (i * 5) % 16
          [] tile.index = 2 -> IF (i % 8) < (i \div 8) THEN 0 ELSE 1 + (i % 15)
          [] OTHER          -> 15]

\* Tile::Attributes().getAttribute(TileAttributes::ATTR_PRIORITY), as a byte.
getPriority(tile) == tile.priority

\* BigTile::getTile(n): a block is its four tiles, n = 0..3.
getBlockTile(block, n) == block[n + 1]

\* Palette::getR/getG/getB/getA of entry idx of row `row` of palette set pals.
getR(pals, row, idx) == (row * 16 + idx + 40 * pals) % 256
getG(pals, row, idx) == (row * 7 + idx * 3 + pals) % 256
getB(pals, row, idx) == (255 - row * 16 - idx + pals) % 256
getA(pals, row, idx) ==
    IF idx = 0 THEN 0
    ELSE IF pals = 1 THEN idx * 17
    ELSE (row * 16 + idx * 9) % 256

(***************************************************************************)
(* ImageBuffer: the operations as functions of the rasters.                *)
(***************************************************************************)
\* The two rasters, as one value.
Rasters(pixels, priority) == [pixels |-> pixels, priority |-> priority]

\* The range test with > for >=: a tile whose last column is column width,
\* one past the row's end, is let through.
OutOfRange_OffByOne(x, y, width, height) ==
    LET max_x == x + 7
        max_y == y + 7
    IN (max_x > width) \/ (max_y >= height)

\* InsertTile's test (max_x >= m_width) || (max_y >= m_height).
OutOfRange(x, y, width, height) ==
    LET max_x == x + 7
        max_y == y + 7
    IN (max_x >= width) \/ (max_y >= height)

\* The row start with the source's stride, 8, for the destination's.
RowStart_SourceStride(row_it, width, i) == row_it + 8 * (i \div 8)

\* The iterator a tile row starts at: row_it + m_width * (i / 8).
RowStart(row_it, width, i) == row_it + width * (i \div 8)

\* The drawing test left out: every source byte is drawn, zero or not.
IsDrawn_Always(bits) == TRUE

\* The test tile_bits[i] != 0: a zero source byte is not drawn.
IsDrawn(bits) == bits # 0

\* The byte written for a drawn source byte: tile_bits[i] | pal_bits.
PixelByte(bits, pal_bits) == BitOr(bits, pal_bits)

\* The body of InsertTile's loop. c holds what the loop only reads, s what it
\* changes: the counter i, the destination iterators dest_it and pri_dest_it
\* and the two rasters.
TileStep(c, s) ==
    LET i           == s.i
        dest_it     == IF i % 8 = 0 THEN RowStart(c.row_it, c.width, i) ELSE s.dest_it
        pri_dest_it == IF i % 8 = 0 THEN RowStart(c.pri_row_it, c.width, i) ELSE s.pri_dest_it
        bits        == c.tile_bits[i + 1]
    IN  [i           |-> i + 1,
         dest_it     |-> dest_it + 1,
         pri_dest_it |-> pri_dest_it + 1,
         pixels      |-> IF IsDrawn(bits)
                         THEN [s.pixels EXCEPT ![dest_it + 1] = PixelByte(bits, c.pal_bits)]
                         ELSE s.pixels,
         priority    |-> IF IsDrawn(bits)
                         THEN [s.priority EXCEPT ![pri_dest_it + 1] = c.priority]
                         ELSE s.priority]

RECURSIVE TileLoop(_, _)
\* InsertTile's loop for (i = 0; i < tile_bits.size(); ++i), from state s on.
TileLoop(c, s) ==
    IF s.i >= Len(c.tile_bits) THEN Rasters(s.pixels, s.priority)
    ELSE TileLoop(c, TileStep(c, s))

\* ImageBuffer::InsertTile on rasters r of a width x height buffer.
InsertTile(r, width, height, x, y, palette_index, tile) ==
    IF OutOfRange(x, y, width, height) THEN r
    ELSE
        LET begin_offset == y * width + x
            c == [tile_bits  |-> getTile(tile),
                  pal_bits   |-> PalBits(palette_index),
                  width      |-> width,
                  row_it     |-> begin_offset,
                  pri_row_it |-> begin_offset,
                  priority   |-> getPriority(tile)]
        IN  TileLoop(c, [i           |-> 0,
                         dest_it     |-> begin_offset,
                         pri_dest_it |-> begin_offset,
                         pixels      |-> r.pixels,
                         priority    |-> r.priority])

\* The block test on the last pixel of the 16x16 footprint.
BlockInRange_LastPixel(x, y, width, size) == (y + 15) * width + x + 15 < size

\* InsertBlock's test (y + 7) * m_width + x + 7 < m_pixels.size().
BlockInRange(x, y, width, size) == (y + 7) * width + x + 7 < size

\* ImageBuffer::InsertBlock on rasters r of a width x height buffer.
InsertBlock(r, width, height, x, y, palette_index, block) ==
    IF BlockInRange(x, y, width, Len(r.pixels))
    THEN LET r0 == InsertTile(r, width, height, x, y, palette_index, getBlockTile(block, 0))
             r1 == InsertTile(r0, width, height, x + 8, y, palette_index, getBlockTile(block, 1))
             r2 == InsertTile(r1, width, height, x, y + 8, palette_index, getBlockTile(block, 2))
         IN  InsertTile(r2, width, height, x + 8, y + 8, palette_index, getBlockTile(block, 3))
    ELSE r

\* vector::resize(size): the first elements kept, the new ones zero.
VecResize(vec, size) == [k \in 1..size |-> IF k <= Len(vec) THEN vec[k] ELSE 0]

\* One byte GetRGB writes: channel ch (0 red, 1 green, 2 blue) of a pixel.
RGBByte(pals, pixel, ch) ==
    CASE ch = 0 -> getR(pals, pixel \div 16, pixel % 16)
      [] ch = 1 -> getG(pals, pixel \div 16, pixel % 16)
      [] OTHER  -> getB(pals, pixel \div 16, pixel % 16)

\* ImageBuffer::GetRGB: m_rgb after the call. The scratch vector is resized to
\* m_width * m_height * 3 and the loop writes three bytes per element of m_pixels.
GetRGB(rgb, pixels, width, height, pals) ==
    LET resized == VecResize(rgb, width * height * 3)
    IN  [k \in 1..Len(resized) |->
            IF (k - 1) \div 3 < Len(pixels)
            THEN RGBByte(pals, pixels[(k - 1) \div 3 + 1], (k - 1) % 3)
            ELSE resized[k]]

\* The two ceilings exchanged.
MaxOpacity_Exchanged(pri, low_pri_max_opacity, high_pri_max_opacity) ==
    IF pri # 0 THEN low_pri_max_opacity ELSE high_pri_max_opacity

\* The ceiling GetAlpha picks: *pri++ ? high_pri_max_opacity : low_pri_max_opacity.
MaxOpacity(pri, low_pri_max_opacity, high_pri_max_opacity) ==
    IF pri # 0 THEN high_pri_max_opacity ELSE low_pri_max_opacity

\* ImageBuffer::GetAlpha: m_alpha after the call.
GetAlpha(alpha, pixels, priority, width, height, pals, low_pri_max_opacity, high_pri_max_opacity) ==
    LET resized == VecResize(alpha, width * height)
    IN  [k \in 1..Len(resized) |->
            IF k <= Len(pixels)
            THEN Min(MaxOpacity(priority[k], low_pri_max_opacity, high_pri_max_opacity),
                     getA(pals, pixels[k] \div 16, pixels[k] % 16))
            ELSE resized[k]]

\* Resize without the assign of m_priority.
AssignPriority_Left(priority, width, height) == priority

\* Resize's m_priority.assign(width * height, 0).
AssignPriority(priority, width, height) == Zeroes(width * height)

\* Resize's m_pixels.clear(); m_pixels.assign(m_width * m_height, 0).
AssignPixels(pixels, width, height) == Zeroes(width * height)

\* std::fill(begin, end, 0): every element zero, the size kept.
Fill(vec) == [k \in 1..Len(vec) |-> 0]

(***************************************************************************)
(* The inputs the calls are made with.                                     *)
(***************************************************************************)
\* The sizes a buffer is constructed with, <<width, height>>.
CtorDims == {<<16, 16>>, <<18, 10>>}

\* The sizes a buffer is resized to.
ResizeDims == {<<10, 18>>}

\* The tiles of the tileset, with the priority attribute they are drawn with.
TileA == MkTile(1, 1)
TileB == MkTile(2, 0)
TileC == MkTile(3, 1)
TileD == MkTile(3, 0)
TileE == MkTile(0, 1)

\* <<x, y, palette_index, tile>> of the InsertTile calls: corners inside and
\* outside each buffer size, footprints that overlap.
TileCalls ==
    {<<0, 0, 2, TileA>>, <<3, 1, 15, TileB>>, <<8, 8, 0, TileC>>,
     <<9, 2, 2, TileD>>, <<0, 9, 15, TileB>>, <<3, 1, 1, TileA>>}

\* <<x, y, palette_index, block>> of the InsertBlock calls.
BlockCalls ==
    {<<0, 0, 1, <<TileA, TileB, TileD, TileA>>>>,
     <<3, 1, 3, <<TileB, TileE, TileB, TileC>>>>,
     <<9, 2, 1, <<TileA, TileB, TileD, TileA>>>>,
     <<0, 9, 3, <<TileB, TileE, TileB, TileC>>>>}

\* The palette sets GetRGB and GetAlpha are called with; each has 16 rows.
PaletteSets == {1, 2}

\* <<pals, low_pri_max_opacity, high_pri_max_opacity>> of the GetAlpha calls.
AlphaCalls == {<<1, 64, 200>>, <<2, 255, 100>>}

(***************************************************************************)
(* The buffer as a state machine: one action per public operation.         *)
(***************************************************************************)
\* A call with no arguments; the actions fill in the arguments they take.
Call(op) ==
    [op |-> op, x |-> 0, y |-> 0, palette_index |-> 0, tile |-> MkTile(0, 0),
     block |-> <<>>, pals |-> 0, low |-> 0, high |-> 0]

NotHeld == [held |-> FALSE, bytes |-> <<>>]

\* ImageBuffer::ImageBuffer() and ImageBuffer::ImageBuffer(width, height).
InitBuffer ==
    /\ \E d \in CtorDims \cup {<<0, 0>>} :
          /\ m_width = d[1]
          /\ m_height = d[2]
          /\ m_pixels = Zeroes(d[1] * d[2])
          /\ m_priority = Zeroes(d[1] * d[2])
    /\ m_rgb = <<>>
    /\ m_alpha = <<>>
    /\ lastCall = Call("ImageBuffer")
    /\ calls = <<>>
    /\ heldRGB = NotHeld
    /\ heldAlpha = NotHeld
    /\ nops = 0

\* The transform is not used by the buffer's specification.
IsoIdle ==
    /\ m_mapWidth = 0
    /\ m_mapHeight = 0
    /\ m_left = 0
    /\ m_top = 0
    /\ TILEWIDTH = 1
    /\ TILEHEIGHT = 1
    /\ isoCall = [op |-> "BlockmapIsometric", ax |-> 0, ay |-> 0, rx |-> 0, ry |-> 0]

Init == InitBuffer /\ IsoIdle

\* ImageBuffer::Clear.
Clear ==
    /\ nops < MaxOps
    /\ m_pixels' = Fill(m_pixels)
    /\ m_priority' = Fill(m_priority)
    /\ lastCall' = Call("Clear")
    /\ calls' = <<>>
    /\ nops' = nops + 1
    /\ UNCHANGED <<m_width, m_height, m_rgb, m_alpha, heldRGB, heldAlpha>>

\* ImageBuffer::Resize.
Resize ==
    /\ nops < MaxOps
    /\ \E d \in ResizeDims :
          /\ m_width' = d[1]
          /\ m_height' = d[2]
          /\ m_pixels' = AssignPixels(m_pixels, d[1], d[2])
          /\ m_priority' = AssignPriority(m_priority, d[1], d[2])
          /\ lastCall' = [Call("Resize") EXCEPT !.x = d[1], !.y = d[2]]
    /\ calls' = <<>>
    /\ nops' = nops + 1
    /\ UNCHANGED <<m_rgb, m_alpha, heldRGB, heldAlpha>>

\* ImageBuffer::InsertTile.
CallInsertTile ==
    /\ nops < MaxOps
    /\ \E a \in TileCalls :
          LET r == InsertTile(Rasters(m_pixels, m_priority), m_width, m_height,
                              a[1], a[2], a[3], a[4])
              call == [Call("InsertTile") EXCEPT !.x = a[1], !.y = a[2],
                                                 !.palette_index = a[3], !.tile = a[4]]
          IN  /\ m_pixels' = r.pixels
              /\ m_priority' = r.priority
              /\ lastCall' = call
              /\ calls' = Append(calls, call)
    /\ nops' = nops + 1
    /\ UNCHANGED <<m_width, m_height, m_rgb, m_alpha, heldRGB, heldAlpha>>

\* ImageBuffer::InsertBlock.
CallInsertBlock ==
    /\ nops < MaxOps
    /\ \E a \in BlockCalls :
          LET r == InsertBlock(Rasters(m_pixels, m_priority), m_width, m_height,
                               a[1], a[2], a[3], a[4])
              call == [Call("InsertBlock") EXCEPT !.x = a[1], !.y = a[2],
                                                  !.palette_index = a[3], !.block = a[4]]
          IN  /\ m_pixels' = r.pixels
              /\ m_priority' = r.priority
              /\ lastCall' = call
              /\ calls' = Append(calls, call)
    /\ nops' = nops + 1
    /\ UNCHANGED <<m_width, m_height, m_rgb, m_alpha, heldRGB, heldAlpha>>

\* ImageBuffer::GetRGB. The result is a reference to m_rgb; the caller keeps
\* the first one it obtains, and heldRGB records what it read through it then.
CallGetRGB ==
    /\ nops < MaxOps
    /\ \E pals \in PaletteSets :
          /\ m_rgb' = GetRGB(m_rgb, m_pixels, m_width, m_height, pals)
          /\ lastCall' = [Call("GetRGB") EXCEPT !.pals = pals]
    /\ heldRGB' = IF heldRGB.held THEN heldRGB ELSE [held |-> TRUE, bytes |-> m_rgb']
    /\ nops' = nops + 1
    /\ UNCHANGED <<m_width, m_height, m_pixels, m_priority, m_alpha, calls, heldAlpha>>

\* ImageBuffer::GetAlpha. The result is a reference to m_alpha.
CallGetAlpha ==
    /\ nops < MaxOps
    /\ \E a \in AlphaCalls :
          /\ m_alpha' = GetAlpha(m_alpha, m_pixels, m_priority, m_width, m_height,
                                 a[1], a[2], a[3])
          /\ lastCall' = [Call("GetAlpha") EXCEPT !.pals = a[1], !.low = a[2], !.high = a[3]]
    /\ heldAlpha' = IF heldAlpha.held THEN heldAlpha ELSE [held |-> TRUE, bytes |-> m_alpha']
    /\ nops' = nops + 1
    /\ UNCHANGED <<m_width, m_height, m_pixels, m_priority, m_rgb, calls, heldRGB>>

Next ==
    \/ Clear /\ UNCHANGED isoVars
    \/ Resize /\ UNCHANGED isoVars
    \/ CallInsertTile /\ UNCHANGED isoVars
    \/ CallInsertBlock /\ UNCHANGED isoVars
    \/ CallGetRGB /\ UNCHANGED isoVars
    \/ CallGetAlpha /\ UNCHANGED isoVars

Spec == Init /\ [][Next]_vars

(***************************************************************************)
(* BlockmapIsometric: the transform between screen points and tiles.       *)
(* GetLeft, GetTop, GetHeight, TILEWIDTH and TILEHEIGHT are declared by the *)
(* base class, outside these files; the operands are taken as signed        *)
(* integers, and division truncates toward zero, as operator / does.        *)
(***************************************************************************)
\* a / b of C++ on integers, b > 0: the quotient truncated toward zero.
CDiv(a, b) == IF a >= 0 THEN a \div b ELSE -((-a) \div b)

\* XYToTilePoint anchored at the map's height instead of height - 1.
XYToTilePoint_Height(height, left, top, tw, th, px, py) ==
    LET xgrid == CDiv(px - left, tw)
        ygrid == CDiv(2 * (py - top), th)
    IN  [x |-> CDiv(ygrid + xgrid - height, 2),
         y |-> CDiv(ygrid - xgrid + height, 2)]

\* BlockmapIsometric::XYToTilePoint of the screen point (px, py), for a map of
\* the given height, origin (left, top) and tile size tw x th.
XYToTilePoint(height, left, top, tw, th, px, py) ==
    LET xgrid == CDiv(px - left, tw)
        ygrid == CDiv(2 * (py - top), th)
    IN  [x |-> CDiv(ygrid + xgrid - height + 1, 2),
         y |-> CDiv(ygrid - xgrid + height - 1, 2)]

\* BlockmapIsometric::ToXYPoint of the tile (tx, ty).
ToXYPoint(height, left, top, tw, th, tx, ty) ==
    LET ix == (tx - ty + (height - 1)) * tw + left
        iy == CDiv((tx + ty) * th, 2) + top
    IN  [x |-> ix, y |-> iy]

\* BlockmapIsometric::GetBitmapWidth and GetBitmapHeight.
GetBitmapWidth(width, height, tw) == (width + height) * tw
GetBitmapHeight(width, height, th) == CDiv((width + height + 1) * th, 2)

\* The viewport origins <<left, top>> and tile sizes <<TILEWIDTH, TILEHEIGHT>>
\* a map is constructed with.
Origins == {<<0, 0>>, <<3, 5>>}
TileSizes == {<<2, 2>>, <<4, 2>>, <<2, 4>>, <<2, 3>>, <<16, 16>>}

\* The screen points XYToTilePoint is called with: the map's canvas and a
\* margin around it.
ScreenXs == (m_left - Margin) .. (m_left + GetBitmapWidth(m_mapWidth, m_mapHeight, TILEWIDTH) + Margin)
ScreenYs == (m_top - Margin) .. (m_top + GetBitmapHeight(m_mapWidth, m_mapHeight, TILEHEIGHT) + Margin)

IsoCallOf(op, ax, ay, r) == [op |-> op, ax |-> ax, ay |-> ay, rx |-> r.x, ry |-> r.y]

\* BlockmapIsometric::BlockmapIsometric(width, height, left, top, palette).
InitIso ==
    /\ m_mapWidth \in 1..MaxGrid
    /\ m_mapHeight \in 1..MaxGrid
    /\ \E o \in Origins : m_left = o[1] /\ m_top = o[2]
    /\ \E t \in TileSizes : TILEWIDTH = t[1] /\ TILEHEIGHT = t[2]
    /\ isoCall = [op |-> "BlockmapIsometric", ax |-> 0, ay |-> 0, rx |-> 0, ry |-> 0]

\* The buffer is not used by the transform's specification.
BufferIdle ==
    /\ m_width = 0
    /\ m_height = 0
    /\ m_pixels = <<>>
    /\ m_priority = <<>>
    /\ m_rgb = <<>>
    /\ m_alpha = <<>>
    /\ lastCall = Call("ImageBuffer")
    /\ calls = <<>>
    /\ heldRGB = NotHeld
    /\ heldAlpha = NotHeld
    /\ nops = 0

\* XYToTilePoint and ToXYPoint are const and read only what the constructor
\* set: a behaviour makes one call on the map it constructed.
CallXYToTilePoint ==
    /\ isoCall.op = "BlockmapIsometric"
    /\ \E px \in ScreenXs, py \in ScreenYs :
          isoCall' = IsoCallOf("XYToTilePoint", px, py,
                        XYToTilePoint(m_mapHeight, m_left, m_top, TILEWIDTH, TILEHEIGHT, px, py))
    /\ UNCHANGED <<m_mapWidth, m_mapHeight, m_left, m_top, TILEWIDTH, TILEHEIGHT>>

CallToXYPoint ==
    /\ isoCall.op = "BlockmapIsometric"
    /\ \E tx \in 0..(m_mapWidth - 1), ty \in 0..(m_mapHeight - 1) :
          isoCall' = IsoCallOf("ToXYPoint", tx, ty,
                        ToXYPoint(m_mapHeight, m_left, m_top, TILEWIDTH, TILEHEIGHT, tx, ty))
    /\ UNCHANGED <<m_mapWidth, m_mapHeight, m_left, m_top, TILEWIDTH, TILEHEIGHT>>

NextIso ==
    \/ CallXYToTilePoint /\ UNCHANGED bufVars
    \/ CallToXYPoint /\ UNCHANGED bufVars

InitTransform == InitIso /\ BufferIdle

SpecIso == InitTransform /\ [][NextIso]_vars

(***************************************************************************)
(* What the claims are stated with.                                        *)
(***************************************************************************)
\* Column and row of the pixel at element k of a raster of the current width.
ColOf(k) == (k - 1) % m_width
RowOf(k) == (k - 1) \div m_width

\* The source byte the 8x8 tile placed at (x, y) has for pixel (col, row):
\* byte j * 8 + i of the tile for the pixel (x + i, y + j), and 0 for a pixel
\* outside the footprint.
SourceAt(x, y, tile, col, row) ==
    IF col \in x..(x + 7) /\ row \in y..(y + 7)
    THEN getTile(tile)[(row - y) * 8 + (col - x) + 1]
    ELSE 0

\* The 8x8 footprint of a tile placed at (x, y) lies inside a w x h buffer.
TileFits(x, y, w, h) == x + 7 < w /\ y + 7 < h

\* The rasters are not all zero.
SomethingDrawn == \E k \in 1..Len(m_pixels) : m_pixels[k] # 0

\* C1: an in-range InsertTile leaves pixel and priority unchanged where the
\* source byte is 0, sets the pixel to (paletteIndex << 4) | rawValue and the
\* priority to the tile's priority attribute where it is not, and changes
\* nothing outside the 8x8 footprint.
C1_InsertTileComposites ==
    [][ (/\ lastCall'.op = "InsertTile"
         /\ TileFits(lastCall'.x, lastCall'.y, m_width, m_height)
         /\ lastCall'.palette_index \in 0..15)
        => LET c == lastCall'
           IN  /\ Len(m_pixels') = Len(m_pixels)
               /\ Len(m_priority') = Len(m_priority)
               /\ \A k \in 1..Len(m_pixels) :
                     LET v == SourceAt(c.x, c.y, c.tile, ColOf(k), RowOf(k))
                     IN  IF v = 0
                         THEN m_pixels'[k] = m_pixels[k] /\ m_priority'[k] = m_priority[k]
                         ELSE /\ m_pixels'[k] = c.palette_index * 16 + v
                              /\ m_priority'[k] = c.tile.priority ]_vars

\* C1's case: the second call is an in-range InsertTile onto a buffer that is
\* not empty, with a transparent source byte over a drawn pixel, which is kept,
\* and an opaque source byte over a drawn pixel, which is replaced.
C1_Witness ==
    /\ nops = 2
    /\ lastCall.op = "InsertTile"
    /\ TileFits(lastCall.x, lastCall.y, m_width, m_height)
    /\ Len(calls) = 2
    /\ TileFits(calls[1].x, calls[1].y, m_width, m_height)
    /\ \E k \in 1..Len(m_pixels) :
          /\ ColOf(k) \in lastCall.x..(lastCall.x + 7)
          /\ RowOf(k) \in lastCall.y..(lastCall.y + 7)
          /\ SourceAt(lastCall.x, lastCall.y, lastCall.tile, ColOf(k), RowOf(k)) = 0
          /\ m_pixels[k] # 0
    /\ \E k \in 1..Len(m_pixels) :
          /\ SourceAt(lastCall.x, lastCall.y, lastCall.tile, ColOf(k), RowOf(k)) # 0
          /\ calls[1].op = "InsertTile"
          /\ SourceAt(calls[1].x, calls[1].y, calls[1].tile, ColOf(k), RowOf(k)) # 0

\* C2: InsertTile(x, y, ...) with x + 7 >= W or y + 7 >= H changes neither the
\* pixel raster, nor the priority raster, nor W, nor H.
C2_OutOfRangeTileIsNoOp ==
    [][ (/\ lastCall'.op = "InsertTile"
         /\ (lastCall'.x + 7 >= m_width \/ lastCall'.y + 7 >= m_height))
        => /\ m_pixels' = m_pixels
           /\ m_priority' = m_priority
           /\ m_width' = m_width
           /\ m_height' = m_height ]_vars

\* C2's case: an out-of-range InsertTile was made on a buffer that holds a
\* drawing, with x + 7 = W exactly, the first position rejected.
C2_Witness ==
    /\ lastCall.op = "InsertTile"
    /\ lastCall.x + 7 = m_width
    /\ lastCall.y + 7 < m_height
    /\ SomethingDrawn

\* C3: InsertBlock(x, y, ...) whose 16x16 footprint does not lie inside the
\* buffer is skipped as a whole: both rasters are unchanged.
C3_BlockAllOrNothing ==
    [][ (/\ lastCall'.op = "InsertBlock"
         /\ (lastCall'.x + 15 >= m_width \/ lastCall'.y + 15 >= m_height))
        => (m_pixels' = m_pixels /\ m_priority' = m_priority) ]_vars

\* The four InsertTile calls a block at (x, y) stands for, made one after the
\* other on rasters r.
FourTiles(r, x, y, palette_index, block) ==
    LET t0 == InsertTile(r, m_width, m_height, x, y, palette_index, block[1])
        t1 == InsertTile(t0, m_width, m_height, x + 8, y, palette_index, block[2])
        t2 == InsertTile(t1, m_width, m_height, x, y + 8, palette_index, block[3])
    IN  InsertTile(t2, m_width, m_height, x + 8, y + 8, palette_index, block[4])

\* C4: for every (x, y), in range or not, InsertBlock leaves the buffer as the
\* four InsertTile calls at (x, y), (x + 8, y), (x, y + 8), (x + 8, y + 8)
\* with the block's tiles 0..3 would.
C4_BlockIsFourTiles ==
    [][ lastCall'.op = "InsertBlock"
        => /\ Rasters(m_pixels', m_priority')
                = FourTiles(Rasters(m_pixels, m_priority), lastCall'.x, lastCall'.y,
                            lastCall'.palette_index, lastCall'.block)
           /\ m_width' = m_width
           /\ m_height' = m_height ]_vars

\* C4's case: a block whose 16x16 footprint leaves the buffer was inserted
\* into an empty buffer and the quadrant tile that fits was drawn.
C4_Witness ==
    /\ nops = 1
    /\ lastCall.op = "InsertBlock"
    /\ (lastCall.x + 15 >= m_width \/ lastCall.y + 15 >= m_height)
    /\ SomethingDrawn

\* C5: the pixel raster and the priority raster both have width * height
\* entries in every state.
C5_RastersSameSize ==
    /\ Len(m_pixels) = m_width * m_height
    /\ Len(m_priority) = m_width * m_height

\* C5's case: Resize was the second call on a buffer and gave it another size.
C5_Witness ==
    /\ nops = 2
    /\ lastCall.op = "Resize"
    /\ Len(m_pixels) = 180
    /\ Len(m_priority) = 180
    /\ m_width = 10

\* C8: GetAlpha returns W * H bytes, entry k being the smaller of the
\* pixel's palette alpha and its ceiling, highMax where the priority entry is
\* nonzero and lowMax where it is zero; so no entry of a high-priority pixel
\* exceeds highMax and none of a low-priority pixel exceeds lowMax.
C8_AlphaIsCappedPaletteAlpha ==
    lastCall.op = "GetAlpha"
    => /\ Len(m_alpha) = m_width * m_height
       /\ \A k \in 1..(m_width * m_height) :
             LET palette_alpha == getA(lastCall.pals, m_pixels[k] \div 16, m_pixels[k] % 16)
                 ceiling == IF m_priority[k] # 0 THEN lastCall.high ELSE lastCall.low
             IN  /\ m_alpha[k] = (IF palette_alpha < ceiling THEN palette_alpha ELSE ceiling)
                 /\ m_priority[k] # 0 => m_alpha[k] <= lastCall.high
                 /\ m_priority[k] = 0 => m_alpha[k] <= lastCall.low

\* C8's case: GetAlpha after an insertion, with a high-priority pixel whose
\* palette alpha is above highMax and is cut to it, and a drawn low-priority
\* pixel whose palette alpha is above lowMax and is cut to it.
C8_Witness ==
    /\ lastCall.op = "GetAlpha"
    /\ lastCall.low # lastCall.high
    /\ \E k \in 1..Len(m_pixels) :
          /\ m_priority[k] # 0
          /\ getA(lastCall.pals, m_pixels[k] \div 16, m_pixels[k] % 16) > lastCall.high
          /\ m_alpha[k] = lastCall.high
    /\ \E k \in 1..Len(m_pixels) :
          /\ m_priority[k] = 0
          /\ m_pixels[k] # 0
          /\ getA(lastCall.pals, m_pixels[k] \div 16, m_pixels[k] % 16) > lastCall.low
          /\ m_alpha[k] = lastCall.low

\* The tile insertions a call stands for, in the order they are made: the
\* call itself for InsertTile, the four quadrant tiles for InsertBlock.
TilesOf(call) ==
    IF call.op = "InsertTile"
    THEN << [x |-> call.x, y |-> call.y, palette_index |-> call.palette_index, tile |-> call.tile] >>
    ELSE [q \in 1..4 |->
            [x |-> call.x + (IF q \in {2, 4} THEN 8 ELSE 0),
             y |-> call.y + (IF q \in {3, 4} THEN 8 ELSE 0),
             palette_index |-> call.palette_index,
             tile |-> call.block[q]]]

RECURSIVE Insertions(_)
\* The tile insertions of a sequence of calls, in order.
Insertions(cs) == IF cs = <<>> THEN <<>> ELSE TilesOf(Head(cs)) \o Insertions(Tail(cs))

\* The insertions of ins that are in range and have a nonzero source byte for
\* the pixel at element k.
Writers(ins, k) ==
    {n \in 1..Len(ins) :
        /\ TileFits(ins[n].x, ins[n].y, m_width, m_height)
        /\ SourceAt(ins[n].x, ins[n].y, ins[n].tile, ColOf(k), RowOf(k)) # 0}

\* The insertions of ins that are in range and cover the pixel at element k.
Coverers(ins, k) ==
    {n \in 1..Len(ins) :
        /\ TileFits(ins[n].x, ins[n].y, m_width, m_height)
        /\ ColOf(k) \in ins[n].x..(ins[n].x + 7)
        /\ RowOf(k) \in ins[n].y..(ins[n].y + 7)}

Last(S) == CHOOSE n \in S : \A m \in S : m <= n

C10_ResultsAreValues ==
    /\ lastCall.op = "GetRGB" => Len(m_rgb) = m_width * m_height * 3
    /\ lastCall.op = "GetAlpha" => Len(m_alpha) = m_width * m_height
    /\ heldRGB.held => m_rgb = heldRGB.bytes
    /\ heldAlpha.held => m_alpha = heldAlpha.bytes

\* The parts of C10 that GetRGB and GetAlpha do keep: they change neither the
\* size nor the rasters, and their result has the length of the current size,
\* also after a Resize.
C10_ExportsReadOnly ==
    [][ lastCall'.op \in {"GetRGB", "GetAlpha"}
        => /\ m_width' = m_width
           /\ m_height' = m_height
           /\ m_pixels' = m_pixels
           /\ m_priority' = m_priority
           /\ lastCall'.op = "GetRGB" => Len(m_rgb') = m_width * m_height * 3
           /\ lastCall'.op = "GetAlpha" => Len(m_alpha') = m_width * m_height ]_vars

\* The tiles of the map whose tw x th screen footprint holds the point (px, py).
TilesAt(px, py) ==
    {t \in (0..(m_mapWidth - 1)) \X (0..(m_mapHeight - 1)) :
        LET o == ToXYPoint(m_mapHeight, m_left, m_top, TILEWIDTH, TILEHEIGHT, t[1], t[2])
        IN  /\ px - o.x \in 0..(TILEWIDTH - 1)
            /\ py - o.y \in 0..(TILEHEIGHT - 1)}

\* C6: for a tile t of the map, an origin (left, top) >= 0 and an even tile
\* height, XYToTilePoint gives t back for every point ToXYPoint(t) + (dx, dy)
\* with 0 <= dx < tileWidth and 0 <= dy < tileHeight.
C6_ScreenToTileInvertsTileToScreen ==
    (isoCall.op = "XYToTilePoint" /\ TILEHEIGHT % 2 = 0 /\ m_left >= 0 /\ m_top >= 0)
    => \A t \in TilesAt(isoCall.ax, isoCall.ay) : isoCall.rx = t[1] /\ isoCall.ry = t[2]

\* C6's case: XYToTilePoint was called with the last pixel of the footprint
\* of a tile away from the map's corner, under an origin that is not (0, 0).
C6_Witness ==
    /\ isoCall.op = "XYToTilePoint"
    /\ TILEHEIGHT % 2 = 0
    /\ m_left > 0
    /\ isoCall.rx > 0
    /\ isoCall.ry > 0
    /\ \E t \in TilesAt(isoCall.ax, isoCall.ay) :
          LET o == ToXYPoint(m_mapHeight, m_left, m_top, TILEWIDTH, TILEHEIGHT, t[1], t[2])
          IN  /\ isoCall.ax = o.x + TILEWIDTH - 1
              /\ isoCall.ay = o.y + TILEHEIGHT - 1
              /\ t = <<isoCall.rx, isoCall.ry>>

\* C7: XYToTilePoint equals the formula with floors for every point, also
\* left of or above the origin and where the sums are negative:
\* xgrid = floor((x - left) / tileWidth), ygrid = floor(2 (y - top) / tileHeight),
\* tile.x = floor((ygrid + xgrid - H + 1) / 2), tile.y = floor((ygrid - xgrid + H - 1) / 2).
C7_ScreenToTileFloors ==
    isoCall.op = "XYToTilePoint"
    => LET xgrid == (isoCall.ax - m_left) \div TILEWIDTH
           ygrid == (2 * (isoCall.ay - m_top)) \div TILEHEIGHT
       IN  /\ isoCall.rx = (ygrid + xgrid - m_mapHeight + 1) \div 2
           /\ isoCall.ry = (ygrid - xgrid + m_mapHeight - 1) \div 2

====
